---- MODULE Spec2Model ----
(***************************************************************************)
(* Model of src/wrapper.rs (inotify-rs): the INotify session, its          *)
(* descriptor's blocking mode, the single raw read and the event decoder.  *)
(*                                                                         *)
(* The operating system is the environment: every OS call returns one of   *)
(* a bounded set of outcomes, and a failing call stores its code in the    *)
(* calling thread's errno.  Bytes are integers 0..255; a name (a Rust      *)
(* String) is the sequence of its UTF-8 bytes.                             *)
(*                                                                         *)
(* Spec is the session used by its one owner, SpecShared the descriptor    *)
(* shared by the owner and the holders of clones, SpecEvent the predicates *)
(* of Event.                                                               *)
(***************************************************************************)
EXTENDS Integers, Sequences, FiniteSets, TLC

(* ------------------------------------------------------------------ *)
(* Constants of libc and of the kernel interface                       *)
(* ------------------------------------------------------------------ *)
EAGAIN == 11
EWOULDBLOCK == 11
O_NONBLOCK == 2048
EINTR == 4
EBADF == 9
ENOMEM == 12
EACCES == 13
EINVAL == 22
EMFILE == 24
ENOENT == 2
IN_NONBLOCK == 2048
IN_CLOEXEC == 524288
\* the event bits of <sys/inotify.h>, which module ffi re-exports
IN_ACCESS == 1
IN_MODIFY == 2
IN_ATTRIB == 4
IN_CLOSE_WRITE == 8
IN_CLOSE_NOWRITE == 16
IN_OPEN == 32
IN_MOVED_FROM == 64
IN_MOVED_TO == 128
IN_CREATE == 256
IN_DELETE == 512
IN_DELETE_SELF == 1024
IN_MOVE_SELF == 2048
IN_UNMOUNT == 8192
IN_Q_OVERFLOW == 16384
IN_IGNORED == 32768
IN_ISDIR == 1073741824
\* IN_CLOSE_WRITE | IN_CLOSE_NOWRITE
IN_CLOSE == 24
\* IN_MOVED_FROM | IN_MOVED_TO
IN_MOVE == 192
\* a bit of the mask that no predicate of Event tests
IN_MASK_ADD == 536870912
\* the descriptor number the kernel hands out
NewFd == 3
\* mem::size_of::<inotify_event>()
event_size == 16
\* let mut buffer = [0u8; 1024]
BufferLen == 1024
\* the largest ssize_t of the 32-bit build
I32Max == 2147483647

(* ------------------------------------------------------------------ *)
(* Bounds of the model                                                 *)
(* ------------------------------------------------------------------ *)
\* records the kernel returns in one read
MaxRecords == 2
\* threads that hold the session or a clone of it
NumActors == 2

Actors == 1..NumActors
\* the thread that calls init_with_flags and owns the session
Owner == 1

(* ------------------------------------------------------------------ *)
(* Bit operations on c_int (two's complement; \div rounds down)        *)
(* ------------------------------------------------------------------ *)
BitIsSet(x, b) == (x \div b) % 2 = 1
BitOr(x, b) == IF BitIsSet(x, b) THEN x ELSE x + b
BitAndNot(x, b) == IF BitIsSet(x, b) THEN x - b ELSE x
NonBlocking(fl) == BitIsSet(fl, O_NONBLOCK)
\* x & y on non-negative values, bit by bit
RECURSIVE BitAnd(_, _)
BitAnd(x, y) ==
    IF x = 0 \/ y = 0 THEN 0
    ELSE (x % 2) * (y % 2) + 2 * BitAnd(x \div 2, y \div 2)

(* ------------------------------------------------------------------ *)
(* Results: IoResult<T>, or the panic that ends the call               *)
(* ------------------------------------------------------------------ *)
NoResult == [kind |-> "None", code |-> 0]
Ok(v) == [kind |-> "Ok", code |-> v]
\* IoError::from_errno(e, true) and IoError::last_error()
IoErrorFromErrnoStale(e) == [kind |-> "Err", code |-> 0]
IoErrorFromErrno(e) == [kind |-> "Err", code |-> e]
\* IoError { kind: EndOfFile, desc: "end of file", detail: None }
EndOfFileError == [kind |-> "EndOfFile", code |-> 0]
Panic == [kind |-> "Panic", code |-> 0]

(* ------------------------------------------------------------------ *)
(* Byte sequences                                                      *)
(* ------------------------------------------------------------------ *)
HasNul(s) == \E k \in 1..Len(s) : s[k] = 0

\* slice.position_elem(&x): 0-based index of the first x, -1 for None
position_elem(s, x) ==
    IF \E k \in 1..Len(s) : s[k] = x
    THEN (CHOOSE k \in 1..Len(s) : s[k] = x /\ \A j \in 1..(k - 1) : s[j] # x) - 1
    ELSE -1

IsCont(b) == b >= 128 /\ b <= 191

\* str::from_utf8: is s well-formed UTF-8
RECURSIVE IsUtf8(_)
IsUtf8(s) ==
    IF Len(s) = 0 THEN TRUE
    ELSE LET b == s[1]
             n == Len(s)
         IN  IF b < 128 THEN IsUtf8(Tail(s))
             ELSE IF b >= 194 /\ b <= 223
                  THEN n >= 2 /\ IsCont(s[2]) /\ IsUtf8(SubSeq(s, 3, n))
             ELSE IF b >= 224 /\ b <= 239
                  THEN /\ n >= 3
                       /\ IsCont(s[2]) /\ IsCont(s[3])
                       /\ (b = 224 => s[2] >= 160)
                       /\ (b = 237 => s[2] <= 159)
                       /\ IsUtf8(SubSeq(s, 4, n))
             ELSE IF b >= 240 /\ b <= 244
                  THEN /\ n >= 4
                       /\ IsCont(s[2]) /\ IsCont(s[3]) /\ IsCont(s[4])
                       /\ (b = 240 => s[2] >= 144)
                       /\ (b = 244 => s[2] <= 143)
                       /\ IsUtf8(SubSeq(s, 5, n))
             ELSE FALSE

(* ------------------------------------------------------------------ *)
(* The kernel's wire layout of one record (little-endian host)         *)
(* ------------------------------------------------------------------ *)
Le32(v) == << v % 256, (v \div 256) % 256, (v \div 65536) % 256,
              (v \div 16777216) % 256 >>

\* r.name is the name field as sent: the file name and its null padding
EncodeRecord(r) ==
    Le32(r.wd) \o Le32(r.mask) \o Le32(r.cookie) \o Le32(Len(r.name)) \o r.name

RECURSIVE EncodeRecords(_)
EncodeRecords(rs) ==
    IF Len(rs) = 0 THEN << >> ELSE EncodeRecord(Head(rs)) \o EncodeRecords(Tail(rs))

(* ------------------------------------------------------------------ *)
(* What the kernel can deliver                                         *)
(* ------------------------------------------------------------------ *)
\* the records of the model: queue overflow (wd -1, no name), "a.txt"
\* padded to 8, "b" padded to 4 with a rename cookie, "dir!" filling its
\* field with no padding, a name that is not UTF-8, a name with bytes
\* after its first null, and a two-byte UTF-8 character
SampleRecords ==
    { [wd |-> -1, mask |-> 16384, cookie |-> 0, name |-> << >>],
      [wd |-> 3, mask |-> 256, cookie |-> 0,
       name |-> <<97, 46, 116, 120, 116, 0, 0, 0>>],
      [wd |-> 2, mask |-> 64, cookie |-> 7, name |-> <<98, 0, 0, 0>>],
      [wd |-> 1, mask |-> 1073742080, cookie |-> 0,
       name |-> <<100, 105, 114, 33>>],
      [wd |-> 1, mask |-> 256, cookie |-> 0, name |-> <<255, 0, 0, 0>>],
      [wd |-> 1, mask |-> 2, cookie |-> 0, name |-> <<97, 0, 98, 0>>],
      [wd |-> 4, mask |-> 512, cookie |-> 0, name |-> <<195, 169, 0, 0>>] }

RecordBatches == UNION { [1..k -> SampleRecords] : k \in 1..MaxRecords }

\* byte strings that are not a whole number of records: a cut header, a
\* header whose name-length (2000) exceeds what follows, a header whose
\* name-length is 0x7FFFFFEF (with the header, 2^31 - 1 bytes), a cut name
RawBuffers ==
    { <<3, 0, 0, 0, 0, 1, 0, 0, 0, 0>>,
      <<3, 0, 0, 0, 0, 1, 0, 0, 0, 0, 0, 0, 208, 7, 0, 0>>,
      <<3, 0, 0, 0, 0, 1, 0, 0, 0, 0, 0, 0, 239, 255, 255, 127>>,
      <<3, 0, 0, 0, 0, 1, 0, 0, 0, 0, 0, 0, 8, 0, 0, 0, 97, 46, 116, 120>> }

\* a header whose name-length is 0x7FFFFFF0 (with the header, 2^31 bytes)
WrapBuffers ==
    { <<3, 0, 0, 0, 0, 1, 0, 0, 0, 0, 0, 0, 240, 255, 255, 127>> }

\* an OS call's outcome: its return value, the errno it sets when it
\* fails, the bytes it stored (read), and the records those bytes encode
\* when they are a whole number of records
NoCall == [call |-> "none", ret |-> 0, err |-> 0, bytes |-> << >>,
           recs |-> << >>, wf |-> FALSE]
Outcome(c, r, e) == [call |-> c, ret |-> r, err |-> e, bytes |-> << >>,
                     recs |-> << >>, wf |-> FALSE]

ReadData ==
    { [call |-> "read", ret |-> Len(EncodeRecords(rs)), err |-> 0,
       bytes |-> EncodeRecords(rs), recs |-> rs, wf |-> TRUE]
        : rs \in RecordBatches }
    \cup
    { [call |-> "read", ret |-> Len(b), err |-> 0, bytes |-> b,
       recs |-> << >>, wf |-> FALSE] : b \in RawBuffers }

\* reads of the buffers whose record spans 2^31 bytes
WrapReads ==
    { [call |-> "read", ret |-> Len(b), err |-> 0, bytes |-> b,
       recs |-> << >>, wf |-> FALSE] : b \in WrapBuffers }

\* read(fd, buffer, 1024): data, end of file, an error, and would-block
\* only while the descriptor is non-blocking
ReadOutcomes(fl) ==
    ReadData
    \cup { Outcome("read", 0, 0) }
    \cup { Outcome("read", -1, e) : e \in {EINTR, EINVAL} }
    \cup (IF NonBlocking(fl)
          THEN { Outcome("read", -1, EAGAIN), Outcome("read", -1, EWOULDBLOCK) }
          ELSE {})

\* inotify_init1(flags)
InitFlags == {0, IN_NONBLOCK, IN_CLOEXEC, 1}
InotifyInit1Outcomes(flags) ==
    IF BitAndNot(BitAndNot(flags, IN_NONBLOCK), IN_CLOEXEC) # 0
    THEN { Outcome("inotify_init1", -1, EINVAL) }
    ELSE { Outcome("inotify_init1", NewFd, 0),
           Outcome("inotify_init1", -1, EMFILE),
           Outcome("inotify_init1", -1, ENOMEM) }
\* the status flags of a descriptor created with `flags`
CreatedFlags(flags) == IF BitIsSet(flags, IN_NONBLOCK) THEN O_NONBLOCK ELSE 0

\* inotify_add_watch(fd, path, mask)
AddWatchOutcomes ==
    { Outcome("inotify_add_watch", 1, 0), Outcome("inotify_add_watch", 2, 0),
      Outcome("inotify_add_watch", -1, ENOENT),
      Outcome("inotify_add_watch", -1, EACCES) }
\* inotify_rm_watch(fd, wd): the kernel answers 0 or -1; the other values
\* are what the binding could return against its contract
RmWatchOutcomes ==
    { Outcome("inotify_rm_watch", 0, 0), Outcome("inotify_rm_watch", -1, EINVAL),
      Outcome("inotify_rm_watch", -1, EBADF),
      Outcome("inotify_rm_watch", 1, 0), Outcome("inotify_rm_watch", -2, 0) }
\* close(fd)
CloseOutcomes == { Outcome("close", 0, 0), Outcome("close", -1, EINTR) }

\* paths handed to add_watch: "/t" and "/tmp" (a Path holds no null byte)
SamplePaths == { <<47, 116>>, <<47, 116, 109, 112>> }
SampleMasks == { 256, 4095 }
SampleWatches == { 1, 2 }
\* what memory past the end of the buffer may hold
JunkBytes == 0..255

\* F_SETFL changes the descriptor's non-blocking bit to that of `arg`
\* and keeps the access mode
FcntlSetfl(old, arg) ==
    IF BitIsSet(arg, O_NONBLOCK) THEN BitOr(old, O_NONBLOCK)
    ELSE BitAndNot(old, O_NONBLOCK)

(* ------------------------------------------------------------------ *)
(* The decoder's pure parts                                            *)
(* ------------------------------------------------------------------ *)
\* buffer[k]: the bytes the read stored, zero up to the buffer's end
\* ([0u8; 1024]), and whatever lies in memory past it
Byte(buf, k, junk) ==
    IF k < Len(buf) THEN buf[k + 1]
    ELSE IF k < BufferLen THEN 0 ELSE junk[k - BufferLen + 1]

\* a u32 field of *event at byte offset off
U32At(buf, off, junk) ==
    Byte(buf, off, junk) + 256 * Byte(buf, off + 1, junk)
    + 65536 * Byte(buf, off + 2, junk) + 16777216 * Byte(buf, off + 3, junk)
\* an i32 field of *event at byte offset off
I32At(buf, off, junk) ==
    LET b3 == Byte(buf, off + 3, junk)
    IN  Byte(buf, off, junk) + 256 * Byte(buf, off + 1, junk)
        + 65536 * Byte(buf, off + 2, junk)
        + 16777216 * (IF b3 >= 128 THEN b3 - 256 ELSE b3)

\* *event for the slice &buffer[i..]
HeaderAt(buf, i, junk) ==
    [wd |-> I32At(buf, i, junk), mask |-> U32At(buf, i + 4, junk),
     cookie |-> U32At(buf, i + 8, junk), len |-> U32At(buf, i + 12, junk)]

\* how many bytes of the header at i lie past the end of buffer
HeaderPast(i) == IF i + event_size > BufferLen THEN i + event_size - BufferLen ELSE 0
\* how many of the n name bytes after the header at i lie inside buffer
NameInside(i, n) ==
    IF i + event_size >= BufferLen THEN 0
    ELSE IF n > BufferLen - (i + event_size) THEN BufferLen - (i + event_size)
    ELSE n

\* slice::from_raw_buf(&name_ptr, (*event).len): len bytes after the header
NameSlice(buf, i, n, junk) ==
    [k \in 1..n |-> Byte(buf, i + event_size + k - 1, junk)]

\* match pos { Some(pos) => name_slice = &name_slice[..pos], None => () }
TruncateAtNulShort(s) ==
    LET pos == position_elem(s, 0)
    IN  IF pos > 0 THEN SubSeq(s, 1, pos - 1) ELSE IF pos = 0 THEN << >> ELSE s
TruncateAtNul(s) ==
    LET pos == position_elem(s, 0)
    IN  IF pos >= 0 THEN SubSeq(s, 1, pos) ELSE s

\* how many name bytes past the end of buffer position_elem looks at: none
\* when it meets a null inside the buffer
NamePast(buf, i, n) ==
    IF HasNul(NameSlice(buf, i, NameInside(i, n), << >>)) THEN 0
    ELSE n - NameInside(i, n)
\* the contents of p bytes of memory past the end of buffer: reading them is
\* undefined behaviour, each byte can be anything
Memory(p) == [1..p -> JunkBytes]

\* the name of the record at i: CString::from_slice panics on a null
\* byte, container_as_str gives None for bytes that are not UTF-8
\* (position_elem stops at the first null: when the part of the slice
\* inside the buffer holds one, the bytes past the buffer are never looked at)
DecodeName(buf, i, n, junk) ==
    IF n > 0
    THEN LET head == NameSlice(buf, i, NameInside(i, n), junk)
             name_slice == IF HasNul(head) THEN TruncateAtNul(head)
                           ELSE TruncateAtNul(NameSlice(buf, i, n, junk))
         IN  IF HasNul(name_slice) \/ ~IsUtf8(name_slice)
             THEN [ok |-> FALSE, name |-> << >>]
             ELSE [ok |-> TRUE, name |-> name_slice]
    ELSE [ok |-> TRUE, name |-> << >>]

\* Event::new(&*event, name)
Event_newSwapped(event, name) ==
    [wd |-> event.wd, mask |-> event.cookie, cookie |-> event.mask,
     name |-> name]
Event_new(event, name) ==
    [wd |-> event.wd, mask |-> event.mask, cookie |-> event.cookie,
     name |-> name]

\* the predicates of Event: `return self.mask & ffi::IN_X > 0;`, which Rust
\* reads as (self.mask & ffi::IN_X) > 0
MaskTestExact(mask, flag) == mask = flag
MaskTest(mask, flag) == BitAnd(mask, flag) > 0
is_access(e) == MaskTest(e.mask, IN_ACCESS)
is_modify(e) == MaskTest(e.mask, IN_MODIFY)
is_attrib(e) == MaskTest(e.mask, IN_ATTRIB)
is_close_write(e) == MaskTest(e.mask, IN_CLOSE_WRITE)
is_close_nowrite(e) == MaskTest(e.mask, IN_CLOSE_NOWRITE)
is_open(e) == MaskTest(e.mask, IN_OPEN)
is_moved_from(e) == MaskTest(e.mask, IN_MOVED_FROM)
is_moved_to(e) == MaskTest(e.mask, IN_MOVED_TO)
is_create(e) == MaskTest(e.mask, IN_CREATE)
is_delete(e) == MaskTest(e.mask, IN_DELETE)
is_delete_self(e) == MaskTest(e.mask, IN_DELETE_SELF)
is_move_self(e) == MaskTest(e.mask, IN_MOVE_SELF)
is_move(e) == MaskTest(e.mask, IN_MOVE)
is_close(e) == MaskTest(e.mask, IN_CLOSE)
is_dir(e) == MaskTest(e.mask, IN_ISDIR)
is_unmount(e) == MaskTest(e.mask, IN_UNMOUNT)
is_queue_overflow(e) == MaskTest(e.mask, IN_Q_OVERFLOW)
is_ignored(e) == MaskTest(e.mask, IN_IGNORED)
\* every predicate of Event, evaluated on one event
Predicates(e) ==
    [ asked |-> TRUE,
      is_access |-> is_access(e),
      is_modify |-> is_modify(e),
      is_attrib |-> is_attrib(e),
      is_close_write |-> is_close_write(e),
      is_close_nowrite |-> is_close_nowrite(e),
      is_open |-> is_open(e),
      is_moved_from |-> is_moved_from(e),
      is_moved_to |-> is_moved_to(e),
      is_create |-> is_create(e),
      is_delete |-> is_delete(e),
      is_delete_self |-> is_delete_self(e),
      is_move_self |-> is_move_self(e),
      is_move |-> is_move(e),
      is_close |-> is_close(e),
      is_dir |-> is_dir(e),
      is_unmount |-> is_unmount(e),
      is_queue_overflow |-> is_queue_overflow(e),
      is_ignored |-> is_ignored(e) ]

\* i += (event_size + (*event).len as usize) as ssize_t
\* x + y in a 32-bit two's complement word
WrapAdd32(x, y) ==
    IF x >= 0 /\ y >= 0 /\ y > I32Max - x
    THEN (x - I32Max) + (y - I32Max) - 2
    ELSE IF x < 0 /\ y < 0 /\ y < (-I32Max - 1) - x
    THEN (x + I32Max) + (y + I32Max) + 2
    ELSE x + y
\* bits is the width of usize and ssize_t: on the 32-bit build the usize sum
\* wraps and the cast to ssize_t reinterprets it as signed
NextOffsetHeaderOnly(i, n, bits) == i + event_size
NextOffset(i, n, bits) ==
    IF bits = 32 THEN WrapAdd32(i, WrapAdd32(event_size, n))
    ELSE i + (event_size + n)

\* error == EAGAIN as usize || error == EWOULDBLOCK as usize
IsWouldBlockNever(e) == FALSE
IsWouldBlock(e) == e = EAGAIN \/ e = EWOULDBLOCK

\* self.events.clear()
ClearEventsKeep(ev) == ev
ClearEvents(ev) == << >>

\* fcntl(fd, F_GETFL) | O_NONBLOCK in init_with_flags
InitSetFlagsForgotten(fl) == fl
InitSetFlags(fl) == BitOr(fl, O_NONBLOCK)
\* fcntl(fd, F_GETFL) & !O_NONBLOCK in wait_for_events
WaitBlockingFlags(fl) == BitAndNot(fl, O_NONBLOCK)
\* fcntl(fd, F_GETFL) | O_NONBLOCK in wait_for_events
WaitRestoreFlagsForgotten(fl) == fl
WaitRestoreFlags(fl) == BitOr(fl, O_NONBLOCK)

\* match result { 0 => Ok(()), -1 => Err(last_error()), _ => panic!() }
RmWatchResultLenient(r, e) ==
    IF r = -1 THEN IoErrorFromErrno(e) ELSE Ok(0)
RmWatchResult(r, e) ==
    IF r = 0 THEN Ok(0) ELSE IF r = -1 THEN IoErrorFromErrno(e) ELSE Panic

\* match wd { -1 => Err(last_error()), _ => Ok(wd) }
AddWatchResult(wd, e) == IF wd = -1 THEN IoErrorFromErrno(e) ELSE Ok(wd)

(* ------------------------------------------------------------------ *)
(* State                                                               *)
(* ------------------------------------------------------------------ *)
VARIABLES
    fdstate,  \* the kernel's descriptor: "none", "open" or "closed"
    fdflags,  \* its file status flags (what F_GETFL returns)
    fd,       \* INotify.fd, -1 while no session exists
    pc,       \* per thread: where it stands in its current call
    op,       \* per thread: the public function it called last
    arg,      \* per thread: the arguments of that call
    events,   \* per thread: INotify.events of its session
    result,   \* per thread: the value its last call produced
    errno,    \* per thread: the C library's errno
    sys,      \* per thread: the outcome of the call's inotify/read/close request
    buffer,   \* per thread: the bytes the read stored in `buffer`
    len,      \* per thread: the local `len`
    i,        \* per thread: the cursor `i` of its last decode loop
    tmp,      \* per thread: the value of the inner fcntl(fd, F_GETFL)
    usize_bits, \* the build: the width of usize and ssize_t on its target
    probe,    \* the Event whose predicates a caller evaluates
    answer    \* what those predicates returned

vars == << fdstate, fdflags, fd, pc, op, arg, events, result, errno, sys,
           buffer, len, i, tmp, usize_bits, probe, answer >>

NoArg == [flags |-> 0, path |-> << >>, mask |-> 0, watch |-> 0]

\* the targets the crate builds for: 32-bit and 64-bit Linux
WordBits == {32, 64}
\* no Event is under evaluation
NoEvent == [wd |-> 0, mask |-> 0, cookie |-> 0, name |-> << >>]
NoAnswer == [asked |-> FALSE]

\* before init_with_flags: no descriptor, no session
InitSession ==
    /\ fdstate = "none"
    /\ fdflags = 0
    /\ fd = -1
    /\ pc = [a \in Actors |-> "idle"]
    /\ op = [a \in Actors |-> "none"]
    /\ arg = [a \in Actors |-> NoArg]
    /\ events = [a \in Actors |-> << >>]
    /\ result = [a \in Actors |-> NoResult]
    /\ errno = [a \in Actors |-> 0]
    /\ sys = [a \in Actors |-> NoCall]
    /\ buffer = [a \in Actors |-> << >>]
    /\ len = [a \in Actors |-> 0]
    /\ i = [a \in Actors |-> 0]
    /\ tmp = [a \in Actors |-> 0]

Init ==
    /\ InitSession
    /\ usize_bits \in WordBits
    /\ probe = NoEvent
    /\ answer = NoAnswer

\* the descriptor number in INotify.fd names an open descriptor
FdValid == fdstate = "open"
\* a thread may start a call: it holds the INotify that init_with_flags
\* returned; close(&self) leaves that value usable
CanCall(a) == pc[a] = "idle" /\ fdstate # "none"

\* errno after an OS call with outcome out
ErrnoAfter(a, out) == IF out.ret = -1 THEN out.err ELSE errno[a]

\* fcntl(fd, F_GETFL)
FcntlGetfl == IF FdValid THEN Outcome("fcntl", fdflags, 0)
              ELSE Outcome("fcntl", -1, EBADF)
\* read(fd, ...) on the descriptor as it is now
\* (the 64-bit build is not given the reads of WrapReads: its cursor would
\* become 2^31, which is no integer of the model)
SysRead ==
    IF FdValid
    THEN ReadOutcomes(fdflags) \cup (IF usize_bits = 32 THEN WrapReads ELSE {})
    ELSE { Outcome("read", -1, EBADF) }
\* inotify_add_watch, inotify_rm_watch and close on the descriptor as it is now
SysAddWatch == IF FdValid THEN AddWatchOutcomes
               ELSE { Outcome("inotify_add_watch", -1, EBADF) }
SysRmWatch == IF FdValid THEN RmWatchOutcomes
              ELSE { Outcome("inotify_rm_watch", -1, EBADF) }
SysClose == IF FdValid THEN CloseOutcomes ELSE { Outcome("close", -1, EBADF) }

(* ------------------------------------------------------------------ *)
(* init_with_flags, add_watch, rm_watch, close                         *)
(* ------------------------------------------------------------------ *)
init_with_flags ==
    /\ fdstate = "none"
    /\ pc[Owner] = "idle"
    /\ \E flags \in InitFlags : \E out \in InotifyInit1Outcomes(flags) :
         LET newfd == out.ret
             failed == newfd = -1
             \* fcntl(fd, F_GETFL), then fcntl(fd, F_SETFL, ...): both fail
             \* with EBADF on the descriptor -1
             got == IF failed THEN -1 ELSE CreatedFlags(flags)
             want == InitSetFlags(got)
             e == IF failed THEN EBADF ELSE errno[Owner]
         IN  /\ fdstate' = IF failed THEN "none" ELSE "open"
             /\ fdflags' = IF failed THEN fdflags
                           ELSE FcntlSetfl(CreatedFlags(flags), want)
             /\ fd' = IF failed THEN fd ELSE newfd
             /\ errno' = [errno EXCEPT ![Owner] = e]
             /\ sys' = [sys EXCEPT ![Owner] = out]
             /\ result' = [result EXCEPT ![Owner] =
                              IF failed THEN IoErrorFromErrno(e) ELSE Ok(newfd)]
             /\ op' = [op EXCEPT ![Owner] = "init_with_flags"]
             /\ arg' = [arg EXCEPT ![Owner] = [NoArg EXCEPT !.flags = flags]]
    /\ UNCHANGED << usize_bits, probe, answer, pc, events, buffer, len, i, tmp >>

add_watch(a) ==
    /\ CanCall(a)
    /\ \E path \in SamplePaths : \E mask \in SampleMasks :
         /\ op' = [op EXCEPT ![a] = "add_watch"]
         /\ arg' = [arg EXCEPT ![a] = [NoArg EXCEPT !.path = path, !.mask = mask]]
         \* CString::from_slice(path.container_as_bytes()) succeeds: the
         \* bytes of a Path hold no null
         /\ \E out \in SysAddWatch :
              /\ sys' = [sys EXCEPT ![a] = out]
              /\ errno' = [errno EXCEPT ![a] = ErrnoAfter(a, out)]
              /\ result' = [result EXCEPT ![a] =
                               AddWatchResult(out.ret, ErrnoAfter(a, out))]
         /\ UNCHANGED pc
    /\ UNCHANGED << usize_bits, probe, answer, fdstate, fdflags, fd, events, buffer, len, i, tmp >>

rm_watch(a) ==
    /\ CanCall(a)
    /\ \E watch \in SampleWatches : \E out \in SysRmWatch :
         LET r == RmWatchResult(out.ret, ErrnoAfter(a, out))
         IN  /\ op' = [op EXCEPT ![a] = "rm_watch"]
             /\ arg' = [arg EXCEPT ![a] = [NoArg EXCEPT !.watch = watch]]
             /\ sys' = [sys EXCEPT ![a] = out]
             /\ errno' = [errno EXCEPT ![a] = ErrnoAfter(a, out)]
             /\ result' = [result EXCEPT ![a] = r]
             /\ pc' = [pc EXCEPT ![a] = IF r = Panic THEN "panicked" ELSE "idle"]
    /\ UNCHANGED << usize_bits, probe, answer, fdstate, fdflags, fd, events, buffer, len, i, tmp >>

close(a) ==
    /\ CanCall(a)
    /\ \E out \in SysClose :
         /\ sys' = [sys EXCEPT ![a] = out]
         /\ errno' = [errno EXCEPT ![a] = ErrnoAfter(a, out)]
         /\ result' = [result EXCEPT ![a] =
                          IF out.ret = 0 THEN Ok(0)
                          ELSE IoErrorFromErrno(ErrnoAfter(a, out))]
    /\ op' = [op EXCEPT ![a] = "close"]
    /\ arg' = [arg EXCEPT ![a] = NoArg]
    /\ fdstate' = "closed"
    /\ UNCHANGED << usize_bits, probe, answer, fdflags, fd, pc, events, buffer, len, i, tmp >>

(* ------------------------------------------------------------------ *)
(* available_events                                                    *)
(* ------------------------------------------------------------------ *)
\* where a thread goes when available_events returns: to its caller, or
\* back into wait_for_events, which holds the value in `result`
AfterDecode(a) == IF op[a] = "wait_for_events" THEN "w_get2" ELSE "idle"

\* entry: self.events.clear()
available_events_enter(a) ==
    /\ \/ /\ CanCall(a)
          /\ op' = [op EXCEPT ![a] = "available_events"]
          /\ arg' = [arg EXCEPT ![a] = NoArg]
          /\ sys' = [sys EXCEPT ![a] = NoCall]
       \/ /\ pc[a] = "w_call"
          /\ UNCHANGED << op, arg, sys >>
    /\ events' = [events EXCEPT ![a] = ClearEvents(events[a])]
    /\ pc' = [pc EXCEPT ![a] = "read"]
    /\ UNCHANGED << usize_bits, probe, answer, fdstate, fdflags, fd, result, errno, buffer, len, i, tmp >>

\* the read and the match on its return value
\* the read of available_events and the match on its result, for the
\* outcomes outs of the kernel
available_events_read_of(a, outs) ==
    /\ pc[a] = "read"
    /\ \E out \in outs :
         LET error == ErrnoAfter(a, out)
         IN  /\ sys' = [sys EXCEPT ![a] = out]
             /\ errno' = [errno EXCEPT ![a] = error]
             /\ buffer' = [buffer EXCEPT ![a] = out.bytes]
             /\ len' = [len EXCEPT ![a] = out.ret]
             /\ IF out.ret = 0
                THEN /\ result' = [result EXCEPT ![a] = EndOfFileError]
                     /\ pc' = [pc EXCEPT ![a] = AfterDecode(a)]
                     /\ UNCHANGED i
                ELSE IF out.ret = -1
                THEN /\ result' = [result EXCEPT ![a] =
                                      IF IsWouldBlock(error) THEN Ok(0)
                                      ELSE IoErrorFromErrno(error)]
                     /\ pc' = [pc EXCEPT ![a] = AfterDecode(a)]
                     /\ UNCHANGED i
                ELSE \* let mut i = 0
                     /\ i' = [i EXCEPT ![a] = 0]
                     /\ pc' = [pc EXCEPT ![a] = "loop"]
                     /\ UNCHANGED result
    /\ UNCHANGED << usize_bits, probe, answer, fdstate, fdflags, fd, op, arg, events, tmp >>

available_events_read(a) == available_events_read_of(a, SysRead)

\* one iteration of `while i < len`
available_events_decode(a) ==
    /\ pc[a] = "loop"
    /\ i[a] < len[a]
    /\ LET \* &buffer[i as usize..] panics when i as usize is past the buffer
           in_buffer == i[a] >= 0 /\ i[a] <= BufferLen
           at == IF in_buffer THEN i[a] ELSE 0
       IN
       \E hjunk \in Memory(HeaderPast(at)) :
       \E njunk \in Memory(NamePast(buffer[a], at, HeaderAt(buffer[a], at, hjunk).len)) :
         LET event == HeaderAt(buffer[a], at, hjunk)
             name == DecodeName(buffer[a], at, event.len, hjunk \o njunk)
         IN  IF in_buffer /\ name.ok
             THEN /\ events' = [events EXCEPT ![a] =
                                   Append(events[a], Event_new(event, name.name))]
                  /\ i' = [i EXCEPT ![a] = NextOffset(i[a], event.len, usize_bits)]
                  /\ UNCHANGED << pc, result >>
             ELSE /\ pc' = [pc EXCEPT ![a] = "panicked"]
                  /\ result' = [result EXCEPT ![a] = Panic]
                  /\ UNCHANGED << events, i >>
    /\ UNCHANGED << usize_bits, probe, answer, fdstate, fdflags, fd, op, arg, errno, sys, buffer, len, tmp >>

\* the loop's exit: Ok(&self.events[])
available_events_return(a) ==
    /\ pc[a] = "loop"
    /\ ~(i[a] < len[a])
    /\ result' = [result EXCEPT ![a] = Ok(0)]
    /\ pc' = [pc EXCEPT ![a] = AfterDecode(a)]
    /\ UNCHANGED << usize_bits, probe, answer, fdstate, fdflags, fd, op, arg, events, errno, sys, buffer,
                    len, i, tmp >>

(* ------------------------------------------------------------------ *)
(* wait_for_events                                                     *)
(* ------------------------------------------------------------------ *)
\* one fcntl(fd, F_GETFL) of thread a, leading to pc value next
Getfl(a, next) ==
    /\ tmp' = [tmp EXCEPT ![a] = FcntlGetfl.ret]
    /\ errno' = [errno EXCEPT ![a] = ErrnoAfter(a, FcntlGetfl)]
    /\ pc' = [pc EXCEPT ![a] = next]
\* one fcntl(fd, F_SETFL, flags) of thread a, leading to pc value next
Setfl(a, flags, next) ==
    /\ fdflags' = IF FdValid THEN FcntlSetfl(fdflags, flags) ELSE fdflags
    /\ errno' = [errno EXCEPT ![a] = IF FdValid THEN errno[a] ELSE EBADF]
    /\ pc' = [pc EXCEPT ![a] = next]

wait_for_events_getfl(a) ==
    /\ CanCall(a)
    /\ op' = [op EXCEPT ![a] = "wait_for_events"]
    /\ arg' = [arg EXCEPT ![a] = NoArg]
    /\ sys' = [sys EXCEPT ![a] = NoCall]
    /\ Getfl(a, "w_set1")
    /\ UNCHANGED << usize_bits, probe, answer, fdstate, fdflags, fd, events, result, buffer, len, i >>

wait_for_events_block(a) ==
    /\ pc[a] = "w_set1"
    /\ Setfl(a, WaitBlockingFlags(tmp[a]), "w_call")
    /\ UNCHANGED << usize_bits, probe, answer, fdstate, fd, op, arg, events, result, sys, buffer, len, i, tmp >>

wait_for_events_getfl2(a) ==
    /\ pc[a] = "w_get2"
    /\ Getfl(a, "w_set2")
    /\ UNCHANGED << usize_bits, probe, answer, fdstate, fdflags, fd, op, arg, events, result, sys, buffer,
                    len, i >>

\* the restoring F_SETFL; then `result` goes to the caller
wait_for_events_restore(a) ==
    /\ pc[a] = "w_set2"
    /\ Setfl(a, WaitRestoreFlags(tmp[a]), "idle")
    /\ UNCHANGED << usize_bits, probe, answer, fdstate, fd, op, arg, events, result, sys, buffer, len, i, tmp >>

(* ------------------------------------------------------------------ *)
(* Specification: one owner, whose calls follow one another            *)
(* ------------------------------------------------------------------ *)
Next ==
    \/ init_with_flags
    \/ add_watch(Owner)
    \/ rm_watch(Owner)
    \/ close(Owner)
    \/ available_events_enter(Owner)
    \/ available_events_read(Owner)
    \/ available_events_decode(Owner)
    \/ available_events_return(Owner)
    \/ wait_for_events_getfl(Owner)
    \/ wait_for_events_block(Owner)
    \/ wait_for_events_getfl2(Owner)
    \/ wait_for_events_restore(Owner)

Spec == Init /\ [][Next]_vars

(* ------------------------------------------------------------------ *)
(* Specification: the owner and the holders of clones poll and wait on *)
(* the one descriptor they share, with no serialization; each OS call  *)
(* is one step.  The kernel's answers to read are those that carry no  *)
(* record (end of file, would-block, an interrupted read), so that the *)
(* decode loop, which never touches the descriptor's mode, stays out.  *)
(* ------------------------------------------------------------------ *)
SharedReads ==
    { Outcome("read", 0, 0), Outcome("read", -1, EAGAIN), Outcome("read", -1, EINTR) }

NextShared ==
    \/ init_with_flags
    \/ \E a \in Actors :
         \/ available_events_enter(a)
         \/ available_events_read_of(a, SysRead \cap SharedReads)
         \/ wait_for_events_getfl(a)
         \/ wait_for_events_block(a)
         \/ wait_for_events_getfl2(a)
         \/ wait_for_events_restore(a)

\* the 64-bit build
InitShared == InitSession /\ usize_bits = 64 /\ probe = NoEvent /\ answer = NoAnswer

SpecShared == InitShared /\ [][NextShared]_vars

(* ------------------------------------------------------------------ *)
(* The predicates of Event as a program of their own: a caller holds   *)
(* one event and asks every predicate about it                         *)
(* ------------------------------------------------------------------ *)
\* every bit a mask of the model can carry: the sixteen bits with a predicate
\* and one without one
PredicateBits ==
    { IN_ACCESS, IN_MODIFY, IN_ATTRIB, IN_CLOSE_WRITE, IN_CLOSE_NOWRITE,
      IN_OPEN, IN_MOVED_FROM, IN_MOVED_TO, IN_CREATE, IN_DELETE,
      IN_DELETE_SELF, IN_MOVE_SELF, IN_ISDIR, IN_UNMOUNT, IN_Q_OVERFLOW,
      IN_IGNORED }
OtherBits == { IN_MASK_ADD }
RECURSIVE SumOf(_)
SumOf(S) == IF S = {} THEN 0
            ELSE LET b == CHOOSE x \in S : TRUE IN b + SumOf(S \ {b})
\* every combination of those bits
ProbeMasks == { SumOf(S) : S \in SUBSET (PredicateBits \cup OtherBits) }

InitEvent ==
    /\ InitSession
    /\ usize_bits \in WordBits
    /\ \E m \in ProbeMasks :
         probe = [wd |-> 3, mask |-> m, cookie |-> 0, name |-> <<97, 46, 116, 120, 116>>]
    /\ answer = NoAnswer

event_predicates ==
    /\ ~answer.asked
    /\ answer' = Predicates(probe)
    /\ UNCHANGED << fdstate, fdflags, fd, pc, op, arg, events, result, errno,
                    sys, buffer, len, i, tmp, usize_bits, probe >>

NextEvent == event_predicates

SpecEvent == InitEvent /\ [][NextEvent]_vars

(* ------------------------------------------------------------------ *)
(* Vocabulary of the properties                                        *)
(* ------------------------------------------------------------------ *)
DecodeOps == {"available_events", "wait_for_events"}
\* available_events has produced its value (wait_for_events may still be
\* restoring the mode before it hands the value on)
Decoded(a) == op[a] \in DecodeOps /\ pc[a] \in {"w_get2", "w_set2", "idle"}
\* the decode call is over: its value exists, or it stopped with a panic
DecodeOver(a) == op[a] \in DecodeOps /\ pc[a] \in {"w_get2", "w_set2", "idle", "panicked"}
\* the thread's read returned the wire form of the records sys[a].recs
ReadWellFormed(a) ==
    op[a] \in DecodeOps /\ sys[a].call = "read" /\ sys[a].ret > 0 /\ sys[a].wf
WouldBlock(a) ==
    sys[a].call = "read" /\ sys[a].ret = -1 /\ sys[a].err \in {EAGAIN, EWOULDBLOCK}

\* the logical name of a name field: its bytes before the first null
NameUpToNul(p) ==
    LET z == { k \in 1..Len(p) : p[k] = 0 }
    IN  IF z = {} THEN p
        ELSE SubSeq(p, 1, (CHOOSE k \in z : \A m \in z : k <= m) - 1)

\* the wire size of the first k records of rs
RECURSIVE WireSize(_, _)
WireSize(rs, k) ==
    IF k = 0 THEN 0 ELSE WireSize(rs, k - 1) + 16 + Len(rs[k].name)

\* the events decoded so far carry wd, mask and cookie of the records, in order
HeadersInOrder(a) ==
    /\ Len(events[a]) <= Len(sys[a].recs)
    /\ \A j \in 1..Len(events[a]) :
         /\ events[a][j].wd = sys[a].recs[j].wd
         /\ events[a][j].mask = sys[a].recs[j].mask
         /\ events[a][j].cookie = sys[a].recs[j].cookie
AllNamesUtf8(a) ==
    \A j \in 1..Len(sys[a].recs) : IsUtf8(NameUpToNul(sys[a].recs[j].name))

(* ------------------------------------------------------------------ *)
(* C1 *)
(* ------------------------------------------------------------------ *)
\* C1 as stated: whenever the read returned K whole records, the call ends
\* by returning exactly K events that carry the records' wd, mask and
\* cookie in order, with the cursor equal to the number of bytes read.
C1_AlwaysKEvents ==
    \A a \in Actors :
        (ReadWellFormed(a) /\ DecodeOver(a)) =>
            /\ result[a] = Ok(0)
            /\ Len(events[a]) = Len(sys[a].recs)
            /\ HeadersInOrder(a)
            /\ i[a] = sys[a].ret

\* C1 amended: for a read of K whole records, after every iteration the
\* events decoded so far are the first records' wd, mask and cookie in
\* order and the cursor is the sum of 16 + name-length over them; when
\* every name (up to its first null) is UTF-8 the call never stops fatally
\* and returns exactly K events with the cursor equal to the bytes read;
\* the only other ending is the fatal stop at a name that is not UTF-8.
C1_KEventsInOrder ==
    \A a \in Actors :
        ReadWellFormed(a) =>
            /\ pc[a] \in {"loop", "panicked"} =>
                 /\ HeadersInOrder(a)
                 /\ i[a] = WireSize(sys[a].recs, Len(events[a]))
            /\ Decoded(a) =>
                 /\ result[a] = Ok(0)
                 /\ Len(events[a]) = Len(sys[a].recs)
                 /\ HeadersInOrder(a)
                 /\ i[a] = WireSize(sys[a].recs, Len(sys[a].recs))
                 /\ i[a] = sys[a].ret /\ i[a] = len[a]
            /\ pc[a] = "panicked" =>
                 /\ Len(events[a]) < Len(sys[a].recs)
                 /\ ~IsUtf8(NameUpToNul(sys[a].recs[Len(events[a]) + 1].name))
            /\ AllNamesUtf8(a) => pc[a] # "panicked"

\* a wait_for_events call has returned two events, the first from a record
\* without a name, the second from a record with a padded name
C1_Witness ==
    \E a \in Actors :
        /\ ReadWellFormed(a) /\ pc[a] = "idle" /\ op[a] = "wait_for_events"
        /\ Len(sys[a].recs) = 2 /\ Len(events[a]) = 2
        /\ Len(sys[a].recs[1].name) = 0 /\ Len(sys[a].recs[2].name) = 4
        /\ events[a][1].wd = -1 /\ events[a][2].cookie = 7
        /\ i[a] = 36

(* ------------------------------------------------------------------ *)
(* C2 *)
(* ------------------------------------------------------------------ *)
\* C2: on an open descriptor, while wait_for_events runs its read the
\* descriptor is blocking, and whenever it has returned to its caller, with
\* any result, the descriptor's non-blocking bit is set again.
C2_WaitRestoresNonBlocking ==
    \A a \in Actors :
        (op[a] = "wait_for_events" /\ fdstate = "open") =>
            /\ pc[a] \in {"w_call", "read", "loop"} => ~NonBlocking(fdflags)
            /\ pc[a] = "idle" => NonBlocking(fdflags)

\* wait_for_events has returned an error and the bit is set
C2_Witness ==
    \E a \in Actors :
        /\ op[a] = "wait_for_events" /\ pc[a] = "idle" /\ fdstate = "open"
        /\ result[a].kind \in {"Err", "EndOfFile"}
        /\ NonBlocking(fdflags)

(* ------------------------------------------------------------------ *)
(* C3 *)
(* ------------------------------------------------------------------ *)
\* C3 as stated: a decode call returns success with zero events exactly
\* when its read would block, and every read that returns one or more
\* bytes ends in a success with at least one event.
C3_BytesAlwaysSucceed ==
    \A a \in Actors :
        (DecodeOver(a) /\ sys[a].call = "read") =>
            /\ (result[a].kind = "Ok" /\ events[a] = << >>) <=> WouldBlock(a)
            /\ sys[a].ret > 0 => (result[a].kind = "Ok" /\ Len(events[a]) >= 1)

\* C3 amended: a decode call returns success with zero events exactly when
\* its read would block; a would-block read never gives an error; a read
\* that returns one or more bytes ends in a success with at least one
\* event or in the fatal stop of the decoder, never in an empty success
\* nor in an error result.
C3_EmptySuccessIffWouldBlock ==
    \A a \in Actors :
        (DecodeOver(a) /\ sys[a].call = "read") =>
            /\ Decoded(a) =>
                 ((result[a].kind = "Ok" /\ events[a] = << >>) <=> WouldBlock(a))
            /\ (Decoded(a) /\ sys[a].ret > 0) =>
                 (result[a].kind = "Ok" /\ Len(events[a]) >= 1)
            /\ pc[a] = "panicked" => sys[a].ret > 0

\* a poll whose read would block has returned an empty success
C3_Witness ==
    \E a \in Actors :
        /\ op[a] = "available_events" /\ pc[a] = "idle"
        /\ WouldBlock(a)
        /\ result[a] = Ok(0) /\ events[a] = << >>

(* ------------------------------------------------------------------ *)
(* C4 *)
(* ------------------------------------------------------------------ *)
\* C4: when the read returns zero bytes the decode call fails with
\* EndOfFile and the session's events are empty.
C4_EndOfFileEmpty ==
    \A a \in Actors :
        (Decoded(a) /\ sys[a].call = "read" /\ sys[a].ret = 0) =>
            /\ result[a] = EndOfFileError
            /\ events[a] = << >>

\* end of file reported by a session whose earlier call had run the
\* decode loop (its cursor is still past zero)
C4_Witness ==
    \E a \in Actors :
        /\ Decoded(a) /\ pc[a] = "idle"
        /\ sys[a].call = "read" /\ sys[a].ret = 0
        /\ result[a] = EndOfFileError /\ events[a] = << >>
        /\ i[a] > 0

(* ------------------------------------------------------------------ *)
(* C5 *)
(* ------------------------------------------------------------------ *)
\* C5: when the read fails with a code that is not would-block, the value
\* of the decode call is the error carrying exactly that code, from the
\* moment available_events produces it until wait_for_events has restored
\* the mode and returned it.
C5_ReadErrorCarriesCode ==
    \A a \in Actors :
        (Decoded(a) /\ sys[a].call = "read" /\ sys[a].ret = -1 /\ ~WouldBlock(a)) =>
            result[a] = [kind |-> "Err", code |-> sys[a].err]

\* wait_for_events has returned the error of a read interrupted by a signal
C5_Witness ==
    \E a \in Actors :
        /\ op[a] = "wait_for_events" /\ pc[a] = "idle"
        /\ sys[a].call = "read" /\ sys[a].ret = -1 /\ sys[a].err = EINTR
        /\ result[a] = [kind |-> "Err", code |-> EINTR]

(* ------------------------------------------------------------------ *)
(* C6 *)
(* ------------------------------------------------------------------ *)
\* C6: every event decoded from a record has as its name the record's name
\* field up to its first null byte (empty for name-length 0, the whole
\* field when it holds no null), and no event of any session has a name
\* that contains a null byte.
C6_NameUpToFirstNul ==
    \A a \in Actors :
        /\ \A j \in 1..Len(events[a]) : ~HasNul(events[a][j].name)
        /\ (ReadWellFormed(a) /\ pc[a] \in {"loop", "w_get2", "w_set2", "idle", "panicked"}) =>
             /\ Len(events[a]) <= Len(sys[a].recs)
             /\ \A j \in 1..Len(events[a]) :
                  LET field == sys[a].recs[j].name
                  IN  /\ events[a][j].name = NameUpToNul(field)
                      /\ Len(field) = 0 => events[a][j].name = << >>
                      /\ ~HasNul(field) => events[a][j].name = field
                      /\ HasNul(field) =>
                           events[a][j].name = SubSeq(field, 1, position_elem(field, 0))

\* a returned batch holds "a.txt" cut from its padded field and "dir!"
\* taken whole from a field without a null
C6_Witness ==
    \E a \in Actors :
        /\ ReadWellFormed(a) /\ pc[a] = "idle"
        /\ Len(events[a]) = 2
        /\ sys[a].recs[1].name = <<97, 46, 116, 120, 116, 0, 0, 0>>
        /\ events[a][1].name = <<97, 46, 116, 120, 116>>
        /\ events[a][2].name = <<100, 105, 114, 33>>

(* ------------------------------------------------------------------ *)
(* C7 *)
(* ------------------------------------------------------------------ *)
\* C7: with a single owner, whenever available_events called directly is
\* about to issue its read on the open descriptor, and whenever the session
\* is open with no call in progress, the descriptor's non-blocking bit is set.
C7_PollReadsNonBlocking ==
    \A a \in Actors :
        /\ (op[a] = "available_events" /\ pc[a] = "read" /\ fdstate = "open")
             => NonBlocking(fdflags)
        /\ (fdstate = "open" /\ \A b \in Actors : pc[b] = "idle")
             => NonBlocking(fdflags)

\* a poll is about to read on a session that has already run a decode loop
C7_Witness ==
    \E a \in Actors :
        /\ op[a] = "available_events" /\ pc[a] = "read" /\ fdstate = "open"
        /\ i[a] > 0
        /\ NonBlocking(fdflags)

(* ------------------------------------------------------------------ *)
(* C8 *)
(* ------------------------------------------------------------------ *)
\* C8: when descriptor creation fails with code e, init_with_flags returns
\* the error carrying e and no session exists.
C8_InitErrorCarriesCreationCode ==
    (op[Owner] = "init_with_flags" /\ sys[Owner].call = "inotify_init1"
     /\ sys[Owner].ret = -1) =>
        /\ result[Owner] = [kind |-> "Err", code |-> sys[Owner].err]
        /\ fd = -1 /\ fdstate = "none"

(* ------------------------------------------------------------------ *)
(* C10 *)
(* ------------------------------------------------------------------ *)
\* C10: rm_watch ends in exactly one of three ways, decided by the OS
\* return value r: success for 0, the error carrying the OS code for -1,
\* and the panic for every other r.
C10_RmWatchThreeOutcomes ==
    \A a \in Actors :
        (op[a] = "rm_watch" /\ sys[a].call = "inotify_rm_watch") =>
            /\ sys[a].ret = 0 => (pc[a] = "idle" /\ result[a] = [kind |-> "Ok", code |-> 0])
            /\ sys[a].ret = -1 =>
                 (pc[a] = "idle" /\ result[a] = [kind |-> "Err", code |-> sys[a].err])
            /\ sys[a].ret \notin {0, -1} =>
                 (pc[a] = "panicked" /\ result[a].kind = "Panic")

\* rm_watch has stopped with a panic on a return value other than 0 and -1
C10_Witness ==
    \E a \in Actors :
        /\ op[a] = "rm_watch" /\ sys[a].call = "inotify_rm_watch"
        /\ sys[a].ret \notin {0, -1}
        /\ pc[a] = "panicked"

(* ------------------------------------------------------------------ *)
(* C11                                                                 *)
(* ------------------------------------------------------------------ *)
\* what the predicate of one bit must answer: whether that bit is in the mask
OwnBit(mask, bit) == (mask \div bit) % 2 = 1

\* C11: each of the sixteen single-bit predicates of Event is true exactly
\* when its own bit is set in mask, whatever the other bits are; for
\* mask = 0x100 is_create is true and every other predicate, is_move and
\* is_close included, is false.
C11_PredicateIffOwnBit ==
    answer.asked =>
        /\ answer.is_access = OwnBit(probe.mask, 1)
        /\ answer.is_modify = OwnBit(probe.mask, 2)
        /\ answer.is_attrib = OwnBit(probe.mask, 4)
        /\ answer.is_close_write = OwnBit(probe.mask, 8)
        /\ answer.is_close_nowrite = OwnBit(probe.mask, 16)
        /\ answer.is_open = OwnBit(probe.mask, 32)
        /\ answer.is_moved_from = OwnBit(probe.mask, 64)
        /\ answer.is_moved_to = OwnBit(probe.mask, 128)
        /\ answer.is_create = OwnBit(probe.mask, 256)
        /\ answer.is_delete = OwnBit(probe.mask, 512)
        /\ answer.is_delete_self = OwnBit(probe.mask, 1024)
        /\ answer.is_move_self = OwnBit(probe.mask, 2048)
        /\ answer.is_unmount = OwnBit(probe.mask, 8192)
        /\ answer.is_queue_overflow = OwnBit(probe.mask, 16384)
        /\ answer.is_ignored = OwnBit(probe.mask, 32768)
        /\ answer.is_dir = OwnBit(probe.mask, 1073741824)
        /\ probe.mask = 256 =>
               \A f \in DOMAIN answer \ {"asked", "is_create"} : ~answer[f]

\* the predicates have answered for a mask that carries the create bit next
\* to a bit of another predicate and a bit of none: is_create and is_dir are
\* true, is_delete is false
C11_Witness ==
    /\ answer.asked
    /\ probe.mask = IN_CREATE + IN_ISDIR + IN_MASK_ADD
    /\ answer.is_create /\ answer.is_dir /\ ~answer.is_delete
    /\ ~answer.is_move /\ ~answer.is_close

(* ------------------------------------------------------------------ *)
(* C12                                                                 *)
(* ------------------------------------------------------------------ *)
\* a record as the kernel writes it: the name field is a name without a null
\* byte, valid UTF-8, followed by nothing but null padding
ValidRecord(r) ==
    /\ IsUtf8(NameUpToNul(r.name))
    /\ \A k \in 1..Len(r.name) : k > Len(NameUpToNul(r.name)) => r.name[k] = 0
\* the wire form of an event whose name field is n bytes long
ReEncode(e, n) ==
    Le32(e.wd) \o Le32(e.mask) \o Le32(e.cookie) \o Le32(n)
    \o e.name \o [k \in 1..(n - Len(e.name)) |-> 0]
\* the thread's read returned exactly one record, a valid one
ReadOneValidRecord(a) ==
    ReadWellFormed(a) /\ Len(sys[a].recs) = 1 /\ ValidRecord(sys[a].recs[1])

\* C12: a read of one valid record never stops the decoder, and once decoded
\* it has given one event whose wd, mask, cookie and name, the name padded
\* with null bytes to the record's name-length, encode to the very bytes that
\* were read.
C12_DecodeEncodeRoundTrip ==
    \A a \in Actors :
        ReadOneValidRecord(a) =>
            /\ pc[a] # "panicked"
            /\ Decoded(a) =>
                 /\ Len(events[a]) = 1
                 /\ Len(events[a][1].name) <= Len(sys[a].recs[1].name)
                 /\ ReEncode(events[a][1], Len(sys[a].recs[1].name)) = buffer[a]
                 /\ buffer[a] = sys[a].bytes

\* the record of "a.txt" padded to eight bytes, with mask 0x100, has been
\* decoded to an event named "a.txt" that encodes back to the 24 bytes read
C12_Witness ==
    \E a \in Actors :
        /\ ReadOneValidRecord(a) /\ Decoded(a) /\ pc[a] = "idle"
        /\ Len(buffer[a]) = 24
        /\ events[a] = << [wd |-> 3, mask |-> 256, cookie |-> 0,
                           name |-> <<97, 46, 116, 120, 116>>] >>
        /\ ReEncode(events[a][1], 8) = buffer[a]

(* ------------------------------------------------------------------ *)
(* C13                                                                 *)
(* ------------------------------------------------------------------ *)
\* C13: whichever way control leaves wait_for_events after it made the
\* descriptor blocking, by returning a value or by the decoder's fatal stop
\* at a name that is not UTF-8, the descriptor's non-blocking bit is set
\* again.
C13_RestoreOnEveryExit ==
    \A a \in Actors :
        (op[a] = "wait_for_events" /\ fdstate = "open"
         /\ pc[a] \in {"idle", "panicked"}) =>
            NonBlocking(fdflags)

(* ------------------------------------------------------------------ *)
(* C14                                                                 *)
(* ------------------------------------------------------------------ *)
\* C14: for a read of n bytes, whatever they are, every header and every
\* name the loop interprets lies wholly below offset n (so also inside the
\* 1024-byte buffer), and the loop is left with the cursor equal to n.
C14_DecodeStaysBelowBytesRead ==
    \A a \in Actors :
        (op[a] \in DecodeOps /\ sys[a].call = "read" /\ sys[a].ret > 0) =>
            /\ (pc[a] = "loop" /\ i[a] < len[a]) =>
                 /\ i[a] + event_size <= len[a]
                 /\ i[a] + event_size <= BufferLen =>
                      i[a] + event_size + HeaderAt(buffer[a], i[a], << >>).len <= len[a]
            /\ (pc[a] = "loop" /\ i[a] >= len[a]) => i[a] = len[a]
            /\ Decoded(a) => i[a] = sys[a].ret

(* ------------------------------------------------------------------ *)
(* C15                                                                 *)
(* ------------------------------------------------------------------ *)
\* the event a whole record decodes to
EventOfRecord(r) ==
    [wd |-> r.wd, mask |-> r.mask, cookie |-> r.cookie, name |-> NameUpToNul(r.name)]

\* C15: the results container holds the events of the most recent call's
\* read and nothing older: it is empty once the call has entered and until
\* its read has returned, it is empty after a call whose read gave no bytes
\* (would-block, end of file, error), after a read of K whole records it is
\* exactly their K events, and a read of bytes that are not whole records
\* leaves the one event of the one header those bytes begin with.
C15_OnlyLatestBatch ==
    \A a \in Actors :
        /\ pc[a] = "read" => events[a] = << >>
        /\ (Decoded(a) /\ sys[a].call = "read") =>
             /\ sys[a].ret <= 0 => events[a] = << >>
             /\ ReadWellFormed(a) =>
                  events[a] = [j \in 1..Len(sys[a].recs) |-> EventOfRecord(sys[a].recs[j])]
             /\ (sys[a].ret > 0 /\ ~sys[a].wf) =>
                  /\ Len(events[a]) = 1
                  /\ events[a][1].wd = I32At(sys[a].bytes, 0, << >>)

\* a poll has ended in would-block with an empty container, on a session
\* whose previous decode had advanced its cursor past at least one record
C15_Witness ==
    \E a \in Actors :
        /\ op[a] = "available_events" /\ pc[a] = "idle"
        /\ WouldBlock(a) /\ result[a] = Ok(0)
        /\ i[a] >= event_size
        /\ events[a] = << >>

(* ------------------------------------------------------------------ *)
(* C16                                                                 *)
(* ------------------------------------------------------------------ *)
\* thread b has made the descriptor blocking in wait_for_events and has not
\* yet restored it
InsideWait(b) ==
    op[b] = "wait_for_events"
    /\ pc[b] \in {"w_call", "read", "loop", "w_get2", "w_set2", "panicked"}
\* thread a is about to issue the read of a poll while the descriptor is blocking
PollReadsBlocking(a) ==
    op[a] = "available_events" /\ pc[a] = "read" /\ ~NonBlocking(fdflags)

\* C16: with actors sharing the descriptor there is an interleaving in which
\* a poll's read is issued while the descriptor is blocking (the witness),
\* and it is the interleaving with a wait that causes it: whenever a poll is
\* about to read a blocking descriptor, another actor is inside
\* wait_for_events between its switch to blocking mode and its restore.
C16_PollReadsBlockingOnlyInsideAnothersWait ==
    \A a \in Actors :
        PollReadsBlocking(a) => \E b \in Actors \ {a} : InsideWait(b)

\* the race: one actor's poll is at its read while another actor's wait,
\* which made the descriptor blocking, is at its own read
C16_Witness ==
    \E a \in Actors : \E b \in Actors \ {a} :
        /\ PollReadsBlocking(a)
        /\ op[b] = "wait_for_events" /\ pc[b] = "read"

(* ------------------------------------------------------------------ *)
(* C17                                                                 *)
(* ------------------------------------------------------------------ *)
\* every started call has returned
Quiescent == \A a \in Actors : pc[a] = "idle"

\* C17: with any actors polling and waiting on the shared descriptor, under
\* every interleaving of their get-flags, set-flags and read steps, the
\* descriptor's non-blocking bit is set whenever every started call has
\* returned; the bit is cleared only while some wait_for_events is between
\* its switch to blocking mode and its restore.
C17_QuiescentNonBlocking ==
    fdstate = "open" =>
        /\ Quiescent => NonBlocking(fdflags)
        /\ ~NonBlocking(fdflags) => \E b \in Actors : InsideWait(b)

\* two actors have both returned from wait_for_events, one of them with a
\* read that would have blocked (so the other's restore ran between its own
\* switch to blocking mode and its read), and the bit is set
C17_Witness ==
    /\ fdstate = "open" /\ Quiescent
    /\ \A a \in 1..2 : op[a] = "wait_for_events"
    /\ \E a \in Actors : WouldBlock(a) /\ result[a] = Ok(0)
    /\ NonBlocking(fdflags)

(* ------------------------------------------------------------------ *)
(* C18                                                                 *)
(* ------------------------------------------------------------------ *)
\* C18: once the read has returned n > 0 bytes, every iteration of the
\* loop appends one event and raises the cursor by at least the 16 bytes of
\* a header, with no wrap-around, so that after k iterations the cursor is
\* at least 16 * k and k never exceeds ceil(n / 16); the loop ends for every
\* content of the buffer (a fatal stop at a name that is not UTF-8 counts
\* as an end).
C18_CursorAdvancesNoWrap ==
    \A a \in Actors :
        (op[a] \in DecodeOps /\ sys[a].call = "read" /\ sys[a].ret > 0
         /\ pc[a] \in {"loop", "panicked", "w_get2", "w_set2", "idle"}) =>
            /\ i[a] >= event_size * Len(events[a])
            /\ Len(events[a]) <= (len[a] + (event_size - 1)) \div event_size
            /\ pc[a] = "panicked" => i[a] >= 0

====
